---- MODULE Spec2Model ----
(***************************************************************************)
(* A model of the finite-automaton library: construction/validation and    *)
(* simulation of NFAs (src/src/nfa.rs) and DFAs (src/src/dfa.rs).          *)
(***************************************************************************)
EXTENDS Integers, Sequences, FiniteSets, TLC

(* ----------------------------- bounds ---------------------------------- *)
\* state count of the NFAs that are simulated
MaxStates == 2
\* largest number of (state, symbol, target) edges of a simulated NFA
MaxEdges == 2
\* longest input string passed to simulate
MaxLen == 2
\* state count of the NFAs on which epsilon_closure is called directly
MaxClosureStates == 3
\* largest number of epsilon edges of such an NFA
MaxEpsilonEdges == 2
\* largest state count of the raw NFA descriptions handed to the validator
MaxRawStates == 1
\* largest number of keys of the transition map of such a raw NFA description
MaxRawKeys == 1
\* state count of the DFAs that are simulated
MaxDfaStates == 2
\* largest state count of the raw DFA descriptions handed to the validator
MaxDfaRawStates == 2
\* largest number of keys of the transition map of such a raw DFA description
MaxDfaRawKeys == 2
\* largest number of simulate calls on one NFA after which another one is made
MaxCalls == 2

(* --------------------------- symbols ----------------------------------- *)
\* const EPSILON: char = '~'
EPSILON == "~"
\* the characters that NFA descriptions and inputs are drawn from
Chars == {"0", "1", EPSILON}
\* the characters that DFA descriptions and inputs are drawn from
DfaChars == {"0", "1"}

(* ---------------------------- state ------------------------------------ *)
VARIABLES
    raw,             \* arguments of NFA::new: states, start, accept, alphabet, tfn
    nfa,             \* the constructed NFA (fields of struct NFA)
    new_result,      \* "pending", "Ok" or the NFATypeError returned by NFA::new
    pc,              \* position of the caller / of simulate / of epsilon_closure
    ret,             \* who called epsilon_closure: "test", "loop" or "final"
    input,           \* the string passed to simulate
    pos,             \* number of input symbols consumed by the for loop
    current_states,  \* simulate's current_states
    closure,         \* epsilon_closure's closure
    worklist,        \* epsilon_closure's worklist (a VecDeque)
    from,            \* the argument `states` of the running epsilon_closure call
    epsilon_closure, \* value returned by the last epsilon_closure call
    sim_result,      \* "none", "Accepted", "Rejected" or "InvalidSymbol"
    calls,           \* number of simulate calls that have returned to the caller
    log,             \* the (input, result) pairs of the simulate calls that returned
    dfa_raw,         \* arguments of DFA::new: states, start, accept, alphabet, tfn
    dfa,             \* the constructed DFA (fields of struct DFA)
    dfa_new_result,  \* "pending", "Ok" or the DFATypeError returned by DFA::new
    dfa_pc,          \* position of the caller / of DFA::simulate
    dfa_input,       \* the string passed to DFA::simulate
    dfa_pos,         \* number of input symbols consumed by DFA::simulate
    current_state,   \* DFA::simulate's current_state
    dfa_sim_result   \* "none", "Accepted" or "Rejected"

nfa_vars == <<raw, nfa, new_result, pc, ret, input, pos, current_states, closure,
              worklist, from, epsilon_closure, sim_result, calls, log>>
dfa_vars == <<dfa_raw, dfa, dfa_new_result, dfa_pc, dfa_input, dfa_pos,
              current_state, dfa_sim_result>>
vars == <<nfa_vars, dfa_vars>>

(* --------------------------- helpers ----------------------------------- *)
\* the transition map with no entry
EmptyTfn == [k \in {} |-> {}]

\* HashMap<(usize, char), HashSet<usize>> holding the edges E = {<<s, c, t>>}
TfnOfEdges(E) ==
    [k \in {<<e[1], e[2]>> : e \in E} |->
        {e[3] : e \in {x \in E : x[1] = k[1] /\ x[2] = k[2]}}]

\* all strings over Chars of length at most n
Strings(n) == UNION {[1..k -> Chars] : k \in 0..n}

\* every order in which the elements of the HashSet S can be iterated
Orderings(S) ==
    {f \in [1..Cardinality(S) -> S] :
        \A i, j \in 1..Cardinality(S) : i # j => f[i] # f[j]}

\* the subsets of S with at most k elements
RECURSIVE SubsetsUpTo(_, _)
SubsetsUpTo(S, k) ==
    IF k = 0 THEN {{}}
    ELSE LET P == SubsetsUpTo(S, k - 1) IN P \cup {X \cup {e} : X \in P, e \in S}

\* the transition maps with at most k keys among K and values among V
MapsUpTo(K, V, k) == UNION {[D -> V] : D \in SubsetsUpTo(K, k)}

\* the raw NFA descriptions of n states whose transition map has at most k
\* keys; the identifiers range over 0..n, n being the one that is out of range
NfaDescriptions(n, k) ==
    [states : {n},
     start : 0..n,
     accept : SUBSET (0..n),
     alphabet : SUBSET Chars,
     tfn : MapsUpTo((0..n) \X Chars, SUBSET (0..n), k)]

\* the descriptions of NFAs of n states with at most e edges whose states are
\* numbered so that the start state is 0, and of which at most one state
\* accepts; the targets of the edges range over 0..n, n being out of range
NfaSimDescriptions(n, e) ==
    [states : {n},
     start : {0},
     accept : {{}} \cup {{q} : q \in 0..(n - 1)},
     alphabet : SUBSET (Chars \ {EPSILON}),
     tfn : {TfnOfEdges(E) : E \in SubsetsUpTo((0..(n - 1)) \X Chars \X (0..n), e)}]

\* the descriptions of NFAs of n states with at most e edges, all of them
\* epsilon edges
EpsilonDescriptions(n, e) ==
    [states : {n},
     start : {0},
     accept : {{}},
     alphabet : {{}},
     tfn : {TfnOfEdges(E) :
              E \in SubsetsUpTo((0..(n - 1)) \X {EPSILON} \X (0..(n - 1)), e)}]

\* the descriptions of DFAs of n states over the alphabet A whose transition
\* map has exactly the keys of states x alphabet, with identifiers in 0..n, n
\* being out of range
DfaSimDescriptions(n, A) ==
    [states : {n},
     start : 0..n,
     accept : SUBSET (0..n),
     alphabet : {A},
     tfn : [(0..(n - 1)) \X A -> 0..n]]

\* the raw DFA descriptions of n states whose transition map has at most k
\* keys, with identifiers in 0..n as above
DfaDescriptions(n, k) ==
    [states : {n},
     start : 0..n,
     accept : SUBSET (0..n),
     alphabet : SUBSET DfaChars,
     tfn : MapsUpTo((0..n) \X DfaChars, 0..n, k)]

(* ------------------------- NFA construction ---------------------------- *)
\* validate_nfa checking the transition keys before the reserved symbol
validate_nfa_keys_first(states, start, accept, alphabet, tfn) ==
    IF ~(start < states) THEN "InvalidStartState"
    ELSE IF ~(\A s \in accept : s < states) THEN "InvalidAcceptState"
    ELSE IF ~(\A k \in DOMAIN tfn :
                 k[1] < states /\ (k[2] = EPSILON \/ k[2] \in alphabet))
         THEN "InvalidTransitionFunction"
    ELSE IF EPSILON \in alphabet THEN "ReservedCharacterInAlphabet"
    ELSE IF ~(\A k \in DOMAIN tfn : \A s \in tfn[k] : s < states)
         THEN "InvalidTransitionFunction"
    ELSE "Ok"

\* validate_nfa without the check of the reserved symbol
validate_nfa_no_reserved(states, start, accept, alphabet, tfn) ==
    IF ~(start < states) THEN "InvalidStartState"
    ELSE IF ~(\A s \in accept : s < states) THEN "InvalidAcceptState"
    ELSE IF ~(\A k \in DOMAIN tfn :
                 k[1] < states /\ (k[2] = EPSILON \/ k[2] \in alphabet))
         THEN "InvalidTransitionFunction"
    ELSE IF ~(\A k \in DOMAIN tfn : \A s \in tfn[k] : s < states)
         THEN "InvalidTransitionFunction"
    ELSE "Ok"

\* validate_nfa without the range check of the transition targets
validate_nfa_no_targets(states, start, accept, alphabet, tfn) ==
    IF ~(start < states) THEN "InvalidStartState"
    ELSE IF ~(\A s \in accept : s < states) THEN "InvalidAcceptState"
    ELSE IF EPSILON \in alphabet THEN "ReservedCharacterInAlphabet"
    ELSE IF ~(\A k \in DOMAIN tfn :
                 k[1] < states /\ (k[2] = EPSILON \/ k[2] \in alphabet))
         THEN "InvalidTransitionFunction"
    ELSE "Ok"

\* NFA::validate_nfa: "Ok" or the first error in the order of the checks
validate_nfa(states, start, accept, alphabet, tfn) ==
    IF ~(start < states) THEN "InvalidStartState"
    ELSE IF ~(\A s \in accept : s < states) THEN "InvalidAcceptState"
    ELSE IF EPSILON \in alphabet THEN "ReservedCharacterInAlphabet"
    ELSE IF ~(\A k \in DOMAIN tfn :
                 k[1] < states /\ (k[2] = EPSILON \/ k[2] \in alphabet))
         THEN "InvalidTransitionFunction"
    ELSE IF ~(\A k \in DOMAIN tfn : \A s \in tfn[k] : s < states)
         THEN "InvalidTransitionFunction"
    ELSE "Ok"

\* the alphabet stored in the NFA: the supplied alphabet with EPSILON inserted
alphabet_with_epsilon(alphabet) == alphabet \cup {EPSILON}

\* the struct built by NFA::new after validation (State(s) wraps s unchanged)
BuildNfa(r) ==
    [states |-> 0..(r.states - 1),
     start |-> r.start,
     accept |-> r.accept,
     alphabet |-> alphabet_with_epsilon(r.alphabet),
     tfn |-> r.tfn]

\* no NFA has been constructed
NoNfa == [states |-> {}, start |-> 0, accept |-> {}, alphabet |-> {}, tfn |-> EmptyTfn]

\* NFA::new
NfaNew ==
    /\ pc = "new"
    /\ LET v == validate_nfa(raw.states, raw.start, raw.accept, raw.alphabet, raw.tfn) IN
         /\ new_result' = v
         /\ IF v = "Ok"
            THEN nfa' = BuildNfa(raw) /\ pc' = "ready"
            ELSE nfa' = NoNfa /\ pc' = "failed"
    /\ UNCHANGED <<dfa_vars, calls, log>>
    /\ UNCHANGED <<raw, ret, input, pos, current_states, closure, worklist,
                   from, epsilon_closure, sim_result>>

(* --------------------------- epsilon_closure --------------------------- *)
\* self.tfn.get(&(s, c)): the targets, nothing when the key is absent
TfnGet(tfn, s, c) == IF <<s, c>> \in DOMAIN tfn THEN tfn[<<s, c>>] ELSE {}

\* no discovered target is ever pushed on the worklist
DiscoveredNone(cl, nexts) == {}

\* every target pushed on the worklist, whether closure.insert returns true or not
DiscoveredAll(cl, nexts) == nexts

\* the targets for which closure.insert(next) returns true
Discovered(cl, nexts) == nexts \ cl

\* the front of the worklist read without being removed
PopFrontKeep(w) == w

\* the loop removing two states from the front and processing the first only
PopFrontSkip(w) == IF Len(w) >= 2 THEN Tail(Tail(w)) ELSE Tail(w)

\* worklist.pop_front(): what is left of the worklist
PopFront(w) == Tail(w)

\* entry of epsilon_closure(states): closure = states.clone(), worklist = states in iteration order
EnterClosure(S, who) ==
    /\ closure' = S
    /\ worklist' \in Orderings(S)
    /\ from' = S
    /\ ret' = who
    /\ pc' = "closure"

\* a direct call of epsilon_closure (as the unit test does) on a set of states
ClosureCall ==
    /\ pc = "ready"
    /\ \E S \in SUBSET nfa.states : EnterClosure(S, "test")
    /\ UNCHANGED <<dfa_vars, calls, log>>
    /\ UNCHANGED <<raw, nfa, new_result, input, pos, current_states,
                   epsilon_closure, sim_result>>

\* one iteration of `while let Some(s) = worklist.pop_front()`
ClosureStep ==
    /\ pc = "closure"
    /\ worklist # << >>
    /\ LET s == Head(worklist)
           nexts == TfnGet(nfa.tfn, s, EPSILON)
           fresh == Discovered(closure, nexts)
       IN /\ closure' = closure \cup nexts
          /\ \E order \in Orderings(fresh) : worklist' = PopFront(worklist) \o order
    /\ UNCHANGED <<dfa_vars, calls, log>>
    /\ UNCHANGED <<raw, nfa, new_result, pc, ret, input, pos, current_states,
                   from, epsilon_closure, sim_result>>

\* pop_front returns None: the loop ends and closure is returned to the
\* direct caller
ClosureReturn ==
    /\ pc = "closure"
    /\ ret = "test"
    /\ worklist = << >>
    /\ epsilon_closure' = closure
    /\ pc' = "closed"
    /\ UNCHANGED <<dfa_vars, calls, log>>
    /\ UNCHANGED <<raw, nfa, new_result, ret, input, pos, current_states,
                   closure, worklist, from, sim_result>>

\* the direct caller keeps the returned closure and calls epsilon_closure again
\* on the same set of states, which is iterated in any order again
ClosureAgain ==
    /\ pc = "closed"
    /\ calls < MaxCalls
    /\ calls' = calls + 1
    /\ log' = log \cup {<<from, epsilon_closure>>}
    /\ EnterClosure(from, "test")
    /\ UNCHANGED dfa_vars
    /\ UNCHANGED <<raw, nfa, new_result, input, pos, current_states,
                   epsilon_closure, sim_result>>

(* ------------------------------ simulate ------------------------------- *)
\* validate_input looking at the first symbol of the input only
validate_input_head(a, inp) ==
    IF inp = << >> \/ inp[1] \in a.alphabet THEN "Ok" ELSE "InvalidSymbol"

\* NFA::validate_input
validate_input(a, inp) ==
    IF \A i \in 1..Len(inp) : inp[i] \in a.alphabet THEN "Ok" ELSE "InvalidSymbol"

\* new_states overwritten by the targets of one state instead of extended
new_states_overwrite(a, cl, c) ==
    IF cl = {} THEN {} ELSE TfnGet(a.tfn, CHOOSE q \in cl : TRUE, c)

\* simulation restarted from the start state once no state is left
new_states_restart(a, cl, c) ==
    IF cl = {} THEN {a.start} ELSE UNION {TfnGet(a.tfn, q, c) : q \in cl}

\* the union of the targets of (q, c) over the states q of the closure
new_states(a, cl, c) == UNION {TfnGet(a.tfn, q, c) : q \in cl}

\* the verdict requiring every accept state to be in the final closure
VerdictAll(a, cl) == IF a.accept \subseteq cl THEN "Accepted" ELSE "Rejected"

\* the verdict computed from the final epsilon closure
Verdict(a, cl) == IF a.accept \cap cl = {} THEN "Rejected" ELSE "Accepted"

\* current_states surviving from the previous call of simulate
InitialStatesStale(a) == current_states \cup {a.start}

\* let mut current_states = HashSet::from([self.start])
InitialStates(a) == {a.start}

\* simulate(inp) up to its first epsilon_closure call (of the loop when the
\* input is not empty): validate_input, then current_states = {start}
SimulateOn(inp) ==
    /\ input' = inp
    /\ IF validate_input(nfa, inp) = "Ok"
       THEN /\ current_states' = InitialStates(nfa)
            /\ pos' = 0
            /\ sim_result' = "none"
            /\ EnterClosure(InitialStates(nfa), IF Len(inp) > 0 THEN "loop" ELSE "final")
       ELSE /\ sim_result' = "InvalidSymbol"
            /\ pc' = "done"
            /\ UNCHANGED <<pos, current_states, closure, worklist, from, ret>>

\* call of simulate on any input string within the bound
Simulate ==
    /\ pc = "ready"
    /\ \E inp \in Strings(MaxLen) : SimulateOn(inp)
    /\ UNCHANGED <<dfa_vars, calls, log>>
    /\ UNCHANGED <<raw, nfa, new_result, epsilon_closure>>

\* the rest of one iteration of `for s in input.chars()` once the closure
\* loop has ended: epsilon_closure is returned, current_states = new_states,
\* then the next epsilon_closure call is entered
SymbolStep ==
    /\ pc = "closure"
    /\ ret = "loop"
    /\ worklist = << >>
    /\ epsilon_closure' = closure
    /\ LET ns == new_states(nfa, closure, input[pos + 1]) IN
         /\ current_states' = ns
         /\ pos' = pos + 1
         /\ EnterClosure(ns, IF pos + 1 < Len(input) THEN "loop" ELSE "final")
    /\ UNCHANGED <<dfa_vars, calls, log>>
    /\ UNCHANGED <<raw, nfa, new_result, input, sim_result>>

\* the end of simulate once the last closure loop has ended: the accept test
\* on final_epsilon_closure
Finish ==
    /\ pc = "closure"
    /\ ret = "final"
    /\ worklist = << >>
    /\ epsilon_closure' = closure
    /\ sim_result' = Verdict(nfa, closure)
    /\ pc' = "done"
    /\ UNCHANGED <<dfa_vars, calls, log>>
    /\ UNCHANGED <<raw, nfa, new_result, ret, input, pos, current_states,
                   closure, worklist, from>>

\* the NFAs built by the unit tests epsilon_closure_is_correct,
\* simulate_fails_on_invalid_input and simulate_accepts_string_ending_with_11
TestNfas ==
    {[states |-> 4, start |-> 0, accept |-> {0}, alphabet |-> {"0", "1"},
      tfn |-> TfnOfEdges({<<0, EPSILON, 1>>, <<0, "1", 1>>, <<1, EPSILON, 2>>,
                          <<1, EPSILON, 3>>, <<1, "1", 0>>})],
     [states |-> 2, start |-> 0, accept |-> {0}, alphabet |-> {"0", "1"},
      tfn |-> TfnOfEdges({<<0, "0", 1>>, <<0, "1", 1>>, <<1, "0", 0>>, <<1, "1", 0>>})],
     [states |-> 3, start |-> 0, accept |-> {2}, alphabet |-> {"0", "1"},
      tfn |-> TfnOfEdges({<<0, "0", 0>>, <<0, "1", 0>>, <<0, "1", 1>>, <<1, "1", 2>>})]}

\* the input strings the unit tests pass to simulate
TestInputs ==
    {<<"0", "0", "a", "1", "1">>, <<"0", "0", "1", "1">>, <<"0", "0", "0", "0">>,
     <<"0", "0", "0", "1">>, <<"0", "0", "1", "0">>, << >>}

\* call of simulate on one of the input strings of the unit tests
SimulateTest ==
    /\ pc = "ready"
    /\ \E inp \in TestInputs : SimulateOn(inp)
    /\ UNCHANGED <<dfa_vars, calls, log>>
    /\ UNCHANGED <<raw, nfa, new_result, epsilon_closure>>

\* simulate returns; the caller keeps the result and may call simulate on the
\* same automaton again, as simulate_rejects_strings_not_ending_in_11 does.
\* The locals keep their last values until the next call overwrites them.
Return ==
    /\ pc = "done"
    /\ calls < MaxCalls
    /\ calls' = calls + 1
    /\ log' = log \cup {<<input, sim_result>>}
    /\ pc' = "ready"
    /\ UNCHANGED dfa_vars
    /\ UNCHANGED <<raw, nfa, new_result, ret, input, pos, current_states, closure,
                   worklist, from, epsilon_closure, sim_result>>

(* ------------------------- DFA construction ---------------------------- *)
\* validate checking the accept set before the start state
validate_accept_first(states, start, accept, alphabet, tfn) ==
    IF ~(\A s \in accept : s < states) THEN "InvalidAcceptState"
    ELSE IF ~(start < states) THEN "InvalidStartState"
    ELSE IF ~(\A s \in 0..(states - 1), a \in alphabet : <<s, a>> \in DOMAIN tfn)
         THEN "NonTotalTransitionFunction"
    ELSE IF ~(Cardinality(DOMAIN tfn) = states * Cardinality(alphabet))
            \/ ~(\A k \in DOMAIN tfn : tfn[k] < states)
         THEN "InvalidTransitionFunction"
    ELSE "Ok"

\* validate without the comparison of tfn.len() with states * alphabet.len()
validate_no_size(states, start, accept, alphabet, tfn) ==
    IF ~(start < states) THEN "InvalidStartState"
    ELSE IF ~(\A s \in accept : s < states) THEN "InvalidAcceptState"
    ELSE IF ~(\A s \in 0..(states - 1), a \in alphabet : <<s, a>> \in DOMAIN tfn)
         THEN "NonTotalTransitionFunction"
    ELSE IF ~(\A k \in DOMAIN tfn : tfn[k] < states)
         THEN "InvalidTransitionFunction"
    ELSE "Ok"

\* validate checking size and targets before totality
validate_size_first(states, start, accept, alphabet, tfn) ==
    IF ~(start < states) THEN "InvalidStartState"
    ELSE IF ~(\A s \in accept : s < states) THEN "InvalidAcceptState"
    ELSE IF ~(Cardinality(DOMAIN tfn) = states * Cardinality(alphabet))
            \/ ~(\A k \in DOMAIN tfn : tfn[k] < states)
         THEN "InvalidTransitionFunction"
    ELSE IF ~(\A s \in 0..(states - 1), a \in alphabet : <<s, a>> \in DOMAIN tfn)
         THEN "NonTotalTransitionFunction"
    ELSE "Ok"

\* DFA::validate: "Ok" or the first error in the order of the checks
validate(states, start, accept, alphabet, tfn) ==
    IF ~(start < states) THEN "InvalidStartState"
    ELSE IF ~(\A s \in accept : s < states) THEN "InvalidAcceptState"
    ELSE IF ~(\A s \in 0..(states - 1), a \in alphabet : <<s, a>> \in DOMAIN tfn)
         THEN "NonTotalTransitionFunction"
    ELSE IF ~(Cardinality(DOMAIN tfn) = states * Cardinality(alphabet))
            \/ ~(\A k \in DOMAIN tfn : tfn[k] < states)
         THEN "InvalidTransitionFunction"
    ELSE "Ok"

\* the struct built by DFA::new after validation (State(s) wraps s unchanged)
BuildDfa(r) ==
    [states |-> 0..(r.states - 1),
     start |-> r.start,
     accept |-> r.accept,
     alphabet |-> r.alphabet,
     tfn |-> r.tfn]

\* no DFA has been constructed
NoDfa == [states |-> {}, start |-> 0, accept |-> {}, alphabet |-> {},
          tfn |-> [k \in {} |-> 0]]

\* DFA::new
DfaNew ==
    /\ dfa_pc = "new"
    /\ LET v == validate(dfa_raw.states, dfa_raw.start, dfa_raw.accept,
                         dfa_raw.alphabet, dfa_raw.tfn) IN
         /\ dfa_new_result' = v
         /\ IF v = "Ok"
            THEN dfa' = BuildDfa(dfa_raw) /\ dfa_pc' = "ready"
            ELSE dfa' = NoDfa /\ dfa_pc' = "failed"
    /\ UNCHANGED nfa_vars
    /\ UNCHANGED <<dfa_raw, dfa_input, dfa_pos, current_state, dfa_sim_result>>

(* ---------------------------- DFA simulate ------------------------------ *)
\* the loop of DFA::simulate never assigning current_state
DfaMoveStay(tfn, q, c) == q

\* a lookup miss sending the DFA back to its start state
DfaMoveReset(tfn, q, c) == IF <<q, c>> \in DOMAIN tfn THEN tfn[<<q, c>>] ELSE dfa.start

\* the state after one iteration of the loop of DFA::simulate on symbol c:
\* the mapped target, or the current state when the lookup misses
DfaMove(tfn, q, c) == IF <<q, c>> \in DOMAIN tfn THEN tfn[<<q, c>>] ELSE q

\* the verdict of DFA::simulate in the final state q
DfaVerdict(a, q) == IF q \in a.accept THEN "Accepted" ELSE "Rejected"

\* call of DFA::simulate: current_state = self.start
DfaSimulate ==
    /\ dfa_pc = "ready"
    /\ \E inp \in UNION {[1..k -> DfaChars] : k \in 0..MaxLen} :
         dfa_input' = inp
    /\ current_state' = dfa.start
    /\ dfa_pos' = 0
    /\ dfa_sim_result' = "none"
    /\ dfa_pc' = "loop"
    /\ UNCHANGED nfa_vars
    /\ UNCHANGED <<dfa_raw, dfa, dfa_new_result>>

\* one iteration of `for s in input.chars()`
DfaStep ==
    /\ dfa_pc = "loop"
    /\ dfa_pos < Len(dfa_input)
    /\ current_state' = DfaMove(dfa.tfn, current_state, dfa_input[dfa_pos + 1])
    /\ dfa_pos' = dfa_pos + 1
    /\ UNCHANGED nfa_vars
    /\ UNCHANGED <<dfa_raw, dfa, dfa_new_result, dfa_pc, dfa_input, dfa_sim_result>>

\* the end of DFA::simulate: the accept test
DfaFinish ==
    /\ dfa_pc = "loop"
    /\ dfa_pos = Len(dfa_input)
    /\ dfa_sim_result' = DfaVerdict(dfa, current_state)
    /\ dfa_pc' = "done"
    /\ UNCHANGED nfa_vars
    /\ UNCHANGED <<dfa_raw, dfa, dfa_new_result, dfa_input, dfa_pos, current_state>>

(* --------------------------- specifications ---------------------------- *)
\* no call on the DFA side
DfaIdle ==
    /\ dfa_raw = [states |-> 0, start |-> 0, accept |-> {}, alphabet |-> {},
                  tfn |-> [k \in {} |-> 0]]
    /\ dfa = NoDfa
    /\ dfa_new_result = "pending"
    /\ dfa_pc = "idle"
    /\ dfa_input = << >>
    /\ dfa_pos = 0
    /\ current_state = 0
    /\ dfa_sim_result = "none"

\* no call on the NFA side
NfaIdle ==
    /\ raw = [states |-> 0, start |-> 0, accept |-> {}, alphabet |-> {},
              tfn |-> EmptyTfn]
    /\ nfa = NoNfa
    /\ new_result = "pending"
    /\ pc = "idle"
    /\ ret = "test"
    /\ input = << >>
    /\ pos = 0
    /\ current_states = {}
    /\ closure = {}
    /\ worklist = << >>
    /\ from = {}
    /\ epsilon_closure = {}
    /\ sim_result = "none"
    /\ calls = 0
    /\ log = {}

InitRest ==
    /\ DfaIdle
    /\ nfa = NoNfa
    /\ new_result = "pending"
    /\ pc = "new"
    /\ ret = "test"
    /\ input = << >>
    /\ pos = 0
    /\ current_states = {}
    /\ closure = {}
    /\ worklist = << >>
    /\ from = {}
    /\ epsilon_closure = {}
    /\ sim_result = "none"
    /\ calls = 0
    /\ log = {}

\* NFA::new on every raw description within the bounds
InitNfaNew ==
    /\ \E n \in 0..MaxRawStates : raw \in NfaDescriptions(n, MaxRawKeys)
    /\ InitRest
NextNfaNew == NfaNew
SpecNfaNew == InitNfaNew /\ [][NextNfaNew]_vars

\* NFA::new and simulate
InitNfa == raw \in NfaSimDescriptions(MaxStates, MaxEdges) /\ InitRest
NextNfa == NfaNew \/ Simulate \/ ClosureStep \/ SymbolStep \/ Finish
SpecNfa == InitNfa /\ [][NextNfa]_vars

\* NFA::new and a sequence of simulate calls on the constructed automaton
InitNfaCalls == raw \in TestNfas /\ InitRest
NextNfaCalls == NfaNew \/ SimulateTest \/ ClosureStep \/ SymbolStep \/ Finish \/ Return
SpecNfaCalls == InitNfaCalls /\ [][NextNfaCalls]_vars

\* NFA::new and direct calls of epsilon_closure
InitClosure == raw \in EpsilonDescriptions(MaxClosureStates, MaxEpsilonEdges) /\ InitRest
NextClosure == NfaNew \/ ClosureCall \/ ClosureStep \/ ClosureReturn
SpecClosure == InitClosure /\ [][NextClosure]_vars

\* NFA::new and repeated direct calls of epsilon_closure on one set of states
NextClosureOrder == NfaNew \/ ClosureCall \/ ClosureStep \/ ClosureReturn \/ ClosureAgain
SpecClosureOrder == InitClosure /\ [][NextClosureOrder]_vars

\* the same with every iteration of the worklist loop eventually executed
\* (the loop runs synchronously on one thread)
SpecClosureFair == SpecClosure /\ WF_vars(ClosureStep)

InitDfaRest ==
    /\ NfaIdle
    /\ dfa = NoDfa
    /\ dfa_new_result = "pending"
    /\ dfa_pc = "new"
    /\ dfa_input = << >>
    /\ dfa_pos = 0
    /\ current_state = 0
    /\ dfa_sim_result = "none"

\* DFA::new on every raw description within the bounds
InitDfaNew ==
    /\ \E n \in 0..MaxDfaRawStates : dfa_raw \in DfaDescriptions(n, MaxDfaRawKeys)
    /\ InitDfaRest
NextDfaNew == DfaNew
SpecDfaNew == InitDfaNew /\ [][NextDfaNew]_vars

\* DFA::new and simulate
InitDfa ==
    /\ \E A \in SUBSET DfaChars : dfa_raw \in DfaSimDescriptions(MaxDfaStates, A)
    /\ InitDfaRest
NextDfa == DfaNew \/ DfaSimulate \/ DfaStep \/ DfaFinish
SpecDfa == InitDfa /\ [][NextDfa]_vars

\* the descriptions of DFAs of n states over the alphabet A whose states are
\* numbered so that the start state is 0 and whose transition map has exactly
\* the keys of states x alphabet; the targets range over 0..n, n being out of
\* range
DfaPairDescriptions(n, A) ==
    [states : {n},
     start : {0},
     accept : SUBSET (0..(n - 1)),
     alphabet : {A},
     tfn : [(0..(n - 1)) \X A -> 0..n]]

\* the arguments of NFA::new made of the components of the DFA description d,
\* each target wrapped as a singleton set
NfaOfDfa(d) ==
    [states |-> d.states,
     start |-> d.start,
     accept |-> d.accept,
     alphabet |-> d.alphabet,
     tfn |-> [k \in DOMAIN d.tfn |-> {d.tfn[k]}]]

\* call of NFA::simulate on the input string DFA::simulate was called on
SimulateSame ==
    /\ pc = "ready"
    /\ dfa_pc = "loop"
    /\ dfa_pos = 0
    /\ SimulateOn(dfa_input)
    /\ UNCHANGED <<dfa_vars, calls, log>>
    /\ UNCHANGED <<raw, nfa, new_result, epsilon_closure>>

\* the two simulations are independent of each other; they are scheduled symbol
\* by symbol, the DFA consuming a symbol first and the NFA following
LockDfaStep == DfaStep /\ (pc = "done" \/ (pc = "closure" /\ dfa_pos = pos))
LockSymbolStep == SymbolStep /\ dfa_pos > pos

\* DFA::new on a description and NFA::new on the same description with
\* singleton targets, then both simulate calls on one input
InitBoth ==
    /\ \E A \in SUBSET DfaChars : dfa_raw \in DfaPairDescriptions(MaxDfaStates, A)
    /\ raw = NfaOfDfa(dfa_raw)
    /\ dfa = NoDfa
    /\ dfa_new_result = "pending"
    /\ dfa_pc = "new"
    /\ dfa_input = << >>
    /\ dfa_pos = 0
    /\ current_state = 0
    /\ dfa_sim_result = "none"
    /\ nfa = NoNfa
    /\ new_result = "pending"
    /\ pc = "new"
    /\ ret = "test"
    /\ input = << >>
    /\ pos = 0
    /\ current_states = {}
    /\ closure = {}
    /\ worklist = << >>
    /\ from = {}
    /\ epsilon_closure = {}
    /\ sim_result = "none"
    /\ calls = 0
    /\ log = {}
NextBoth ==
    \/ DfaNew \/ NfaNew \/ DfaSimulate \/ SimulateSame
    \/ ClosureStep \/ LockSymbolStep \/ Finish \/ LockDfaStep \/ DfaFinish
SpecBoth == InitBoth /\ [][NextBoth]_vars

(* ------------------------------- claims -------------------------------- *)
\* the description has an edge from q to t labelled c
Edge(q, c, t) == <<q, c>> \in DOMAIN raw.tfn /\ t \in raw.tfn[<<q, c>>]

\* every symbol of the input is in the alphabet passed to NFA::new
InputDeclared == \A i \in 1..Len(input) : input[i] \in raw.alphabet

\* C1: simulate returns InvalidSymbol if and only if the input has a symbol
\* outside the alphabet passed to the constructor (so an input holding the
\* reserved epsilon symbol is rejected with InvalidSymbol).
C1_InvalidSymbolIffUndeclared ==
    pc = "done" => (sim_result = "InvalidSymbol" <=> ~InputDeclared)

\* the configurations <<state, number of symbols read>> that one move leads to
\* from configuration n: an epsilon edge, or an edge reading the next symbol
ConfigSucc(n) ==
    {<<t, n[2]>> : t \in {x \in 0..(raw.states - 1) : Edge(n[1], EPSILON, x)}}
    \cup (IF n[2] < Len(input)
          THEN {<<t, n[2] + 1>> :
                  t \in {x \in 0..(raw.states - 1) : Edge(n[1], input[n[2] + 1], x)}}
          ELSE {})

\* the configurations reachable from those of R in any number of moves
RECURSIVE Configs(_)
Configs(R) ==
    LET N == R \cup UNION {ConfigSucc(n) : n \in R} IN
    IF N = R THEN R ELSE Configs(N)

\* some path from the start state to an accept state reads exactly the input
PathExists ==
    \E q \in raw.accept :
        <<q, Len(input)>> \in Configs({<<raw.start, 0>>})

\* C2: on an input over the declared alphabet simulate returns Accepted if
\* and only if a path from the start state to an accept state reads exactly
\* the input, with epsilon moves interleaved; otherwise it returns Rejected.
C2_AcceptsIffPath ==
    (pc = "done" /\ InputDeclared) =>
        /\ sim_result \in {"Accepted", "Rejected"}
        /\ sim_result = "Accepted" <=> PathExists

\* an accepted input of two symbols whose path starts with an epsilon move:
\* the start state has no edge on the first symbol
C2_Witness ==
    /\ pc = "done"
    /\ InputDeclared
    /\ Len(input) = 2
    /\ sim_result = "Accepted"
    /\ \A t \in 0..(raw.states - 1) : ~Edge(raw.start, input[1], t)

\* the state reached from q by applying the transition function of the DFA
\* description once per symbol of w, in order
RECURSIVE DeltaHat(_, _)
DeltaHat(q, w) ==
    IF w = << >> THEN q ELSE DeltaHat(dfa_raw.tfn[<<q, Head(w)>>], Tail(w))

\* every symbol of the DFA input is in the alphabet of the DFA
DfaInputDeclared == \A i \in 1..Len(dfa_input) : dfa_input[i] \in dfa_raw.alphabet

\* C3: on an input over its alphabet DFA simulate returns Accepted if and only
\* if the state reached from the start state by applying the transition
\* function once per symbol, in order, is an accept state; the empty input is
\* accepted if and only if the start state is an accept state.
C3_DfaAcceptsIffDeltaHat ==
    (dfa_pc = "done" /\ DfaInputDeclared) =>
        /\ dfa_sim_result \in {"Accepted", "Rejected"}
        /\ dfa_sim_result = "Accepted" <=>
               DeltaHat(dfa_raw.start, dfa_input) \in dfa_raw.accept
        /\ dfa_input = << >> =>
               (dfa_sim_result = "Accepted" <=> dfa_raw.start \in dfa_raw.accept)

\* an input of two symbols accepted from a start state that does not accept,
\* after passing through a state other than the final one
C3_Witness ==
    /\ dfa_pc = "done"
    /\ DfaInputDeclared
    /\ Len(dfa_input) = 2
    /\ dfa_sim_result = "Accepted"
    /\ dfa_raw.start \notin dfa_raw.accept
    /\ dfa_raw.tfn[<<dfa_raw.start, dfa_input[1]>>] # current_state

\* the violations of the DFA invariants by the raw description
DfaStartOut == dfa_raw.start \notin 0..(dfa_raw.states - 1)
DfaAcceptOut == \E s \in dfa_raw.accept : s \notin 0..(dfa_raw.states - 1)
DfaPairMissing ==
    \E s \in 0..(dfa_raw.states - 1), a \in dfa_raw.alphabet :
        <<s, a>> \notin DOMAIN dfa_raw.tfn
DfaMapBad ==
    \/ Cardinality(DOMAIN dfa_raw.tfn) # dfa_raw.states * Cardinality(dfa_raw.alphabet)
    \/ \E k \in DOMAIN dfa_raw.tfn : dfa_raw.tfn[k] \notin 0..(dfa_raw.states - 1)

\* C4: DFA::new reports the first violated invariant in the order start,
\* accept, totality, size and targets, and succeeds exactly when none is
\* violated.
C4_DfaFirstViolation ==
    dfa_new_result # "pending" =>
        /\ dfa_new_result =
              (CASE DfaStartOut -> "InvalidStartState"
                 [] ~DfaStartOut /\ DfaAcceptOut -> "InvalidAcceptState"
                 [] ~DfaStartOut /\ ~DfaAcceptOut /\ DfaPairMissing
                      -> "NonTotalTransitionFunction"
                 [] ~DfaStartOut /\ ~DfaAcceptOut /\ ~DfaPairMissing /\ DfaMapBad
                      -> "InvalidTransitionFunction"
                 [] OTHER -> "Ok")
        /\ dfa_pc = "failed" <=> dfa_new_result # "Ok"

\* a description violating two invariants: an accept index and a transition
\* target are out of range, and the accept set is the one reported
C4_Witness ==
    /\ dfa_new_result = "InvalidAcceptState"
    /\ ~DfaPairMissing
    /\ \E k \in DOMAIN dfa_raw.tfn : dfa_raw.tfn[k] \notin 0..(dfa_raw.states - 1)

\* the violations of the NFA invariants by the raw description
NfaStartOut == raw.start \notin 0..(raw.states - 1)
NfaAcceptOut == \E s \in raw.accept : s \notin 0..(raw.states - 1)
NfaReserved == EPSILON \in raw.alphabet
NfaKeyBad ==
    \E k \in DOMAIN raw.tfn :
        k[1] \notin 0..(raw.states - 1) \/ k[2] \notin raw.alphabet \cup {EPSILON}
NfaTargetOut ==
    \E k \in DOMAIN raw.tfn : \E t \in raw.tfn[k] : t \notin 0..(raw.states - 1)

\* C5: NFA::new reports the first violated invariant in the order start,
\* accept, reserved symbol, transition keys, transition targets, and succeeds
\* exactly when none is violated.
C5_NfaFirstViolation ==
    new_result # "pending" =>
        /\ new_result =
              (CASE NfaStartOut -> "InvalidStartState"
                 [] ~NfaStartOut /\ NfaAcceptOut -> "InvalidAcceptState"
                 [] ~NfaStartOut /\ ~NfaAcceptOut /\ NfaReserved
                      -> "ReservedCharacterInAlphabet"
                 [] ~NfaStartOut /\ ~NfaAcceptOut /\ ~NfaReserved
                      /\ (NfaKeyBad \/ NfaTargetOut) -> "InvalidTransitionFunction"
                 [] OTHER -> "Ok")
        /\ pc = "failed" <=> new_result # "Ok"

\* a description whose alphabet holds the reserved symbol and whose transition
\* map has a key with a state out of range: the reserved symbol is reported
C5_Witness ==
    /\ new_result = "ReservedCharacterInAlphabet"
    /\ \E k \in DOMAIN raw.tfn : k[1] \notin 0..(raw.states - 1)

\* C6: the transition map of a constructed DFA is defined on every pair of
\* states x alphabet, has exactly |states| x |alphabet| entries, has no key
\* outside states x alphabet, and maps every key into the state set.
C6_DfaMapTotalExact ==
    dfa_new_result = "Ok" =>
        /\ \A s \in dfa.states, a \in dfa.alphabet : <<s, a>> \in DOMAIN dfa.tfn
        /\ Cardinality(DOMAIN dfa.tfn) = Cardinality(dfa.states) * Cardinality(dfa.alphabet)
        /\ \A k \in DOMAIN dfa.tfn : k[1] \in dfa.states /\ k[2] \in dfa.alphabet
        /\ \A k \in DOMAIN dfa.tfn : dfa.tfn[k] \in dfa.states

\* a constructed DFA of two states over one symbol
C6_Witness ==
    /\ dfa_new_result = "Ok"
    /\ Cardinality(dfa.states) = 2
    /\ Cardinality(dfa.alphabet) = 1
    /\ Cardinality(DOMAIN dfa.tfn) = 2

\* C7 as stated: DFA::new on a transition map that misses a pair of
\* states x alphabet fails with NonTotalTransitionFunction.
C7_MissingPairNonTotal ==
    (dfa_new_result # "pending" /\ DfaPairMissing) =>
        dfa_new_result = "NonTotalTransitionFunction"

\* C7 amended: DFA::new on a description whose start state and accept indices
\* are in range and whose transition map misses a pair of states x alphabet
\* fails with NonTotalTransitionFunction.
C7_MissingPairNonTotalInRange ==
    (dfa_new_result # "pending" /\ DfaPairMissing /\ ~DfaStartOut /\ ~DfaAcceptOut) =>
        dfa_new_result = "NonTotalTransitionFunction"

\* a map that misses a pair and also has a target out of range is reported
\* as not total
C7_Witness ==
    /\ dfa_new_result = "NonTotalTransitionFunction"
    /\ DfaPairMissing
    /\ DfaMapBad

\* C8 as stated: NFA::new on an alphabet that holds the reserved epsilon
\* symbol fails with ReservedCharacterInAlphabet.
C8_ReservedRejected ==
    (new_result # "pending" /\ NfaReserved) =>
        new_result = "ReservedCharacterInAlphabet"

\* C8 amended: NFA::new on a description whose start state and accept indices
\* are in range and whose alphabet holds the reserved epsilon symbol fails
\* with ReservedCharacterInAlphabet.
C8_ReservedRejectedInRange ==
    (new_result # "pending" /\ NfaReserved /\ ~NfaStartOut /\ ~NfaAcceptOut) =>
        new_result = "ReservedCharacterInAlphabet"

\* an otherwise valid description over an alphabet holding the reserved
\* symbol, with an epsilon transition, is rejected
C8_Witness ==
    /\ new_result = "ReservedCharacterInAlphabet"
    /\ ~NfaKeyBad
    /\ ~NfaTargetOut
    /\ \E k \in DOMAIN raw.tfn : k[2] = EPSILON

\* the states reachable from those of S by at most k epsilon edges
RECURSIVE EpsilonReach(_, _)
EpsilonReach(S, k) ==
    IF k = 0 THEN S
    ELSE LET R == EpsilonReach(S, k - 1) IN
         R \cup {t \in 0..(raw.states - 1) : \E q \in R : Edge(q, EPSILON, t)}

\* C9: epsilon_closure(S) is exactly the set of states reachable from a state
\* of S by zero or more epsilon transitions.
C9_ClosureIsEpsilonReach ==
    pc = "closed" =>
        /\ from \subseteq epsilon_closure
        /\ epsilon_closure = EpsilonReach(from, raw.states)

\* a closure holding a state that only two successive epsilon moves reach
C9_Witness ==
    /\ pc = "closed"
    /\ \E t \in epsilon_closure : t \notin EpsilonReach(from, 1)

\* C10: the worklist loop of epsilon_closure terminates: the worklist
\* eventually becomes empty, epsilon cycles included.
C10_WorklistEmpties == (pc = "closure") ~> (pc = "closure" /\ worklist = << >>)

\* a closure call returned on a set of states lying on an epsilon cycle of
\* two states
C10_Witness ==
    /\ pc = "closed"
    /\ worklist = << >>
    /\ \E q \in from, t \in epsilon_closure :
          q # t /\ Edge(q, EPSILON, t) /\ Edge(t, EPSILON, q)

\* the locals of simulate and of epsilon_closure hold what they held before the
\* call of simulate
SimulateUntouched ==
    /\ pos = 0
    /\ current_states = {}
    /\ closure = {}
    /\ worklist = << >>
    /\ from = {}
    /\ epsilon_closure = {}

\* C11: simulate validates every symbol of the input before it applies any
\* transition: a call that returns InvalidSymbol has computed no epsilon closure,
\* taken no symbol step and never initialised current_states, and whenever an
\* epsilon closure is being computed every symbol of the input, whatever its
\* position, has passed validation
C11_ValidationBeforeTransitions ==
    /\ sim_result = "InvalidSymbol" => pc = "done" /\ SimulateUntouched
    /\ pc = "closure" => \A i \in 1..Len(input) : input[i] \in nfa.alphabet

\* simulate has returned InvalidSymbol on an input whose first symbol is
\* declared and labels an edge that leaves the start state, and whose last
\* symbol is the invalid one
C11_Witness ==
    /\ pc = "done"
    /\ sim_result = "InvalidSymbol"
    /\ Len(input) = 2
    /\ input[1] \in raw.alphabet
    /\ input[2] \notin nfa.alphabet
    /\ \E t \in nfa.states : Edge(raw.start, input[1], t)

\* C12: simulate never changes the automaton: after any sequence of simulate
\* calls, failed ones included, states, start, accept, alphabet and tfn are
\* those NFA::new stored, and a call returns the result that every earlier call
\* on the same input returned (the first call being on the fresh automaton)
C12_SimulateLeavesAutomaton ==
    /\ pc \in {"ready", "closure", "done"} =>
         /\ nfa.states = 0..(raw.states - 1)
         /\ nfa.start = raw.start
         /\ nfa.accept = raw.accept
         /\ nfa.alphabet = raw.alphabet \cup {EPSILON}
         /\ nfa.tfn = raw.tfn
    /\ pc = "done" => \A e \in log : e[1] = input => e[2] = sim_result

\* a valid input simulated on the fresh automaton, then a failed call, then
\* the valid input again with the result Accepted
C12_Witness ==
    /\ pc = "done"
    /\ calls = 2
    /\ sim_result = "Accepted"
    /\ <<input, "Accepted">> \in log
    /\ \E e \in log : e[2] = "InvalidSymbol"

\* C13: on a constructed DFA and any input string, the lookup of
\* (current_state, symbol) that the loop of simulate is about to make finds an
\* entry of the transition map: the None branch is never taken
C13_LookupNeverMisses ==
    (dfa_pc = "loop" /\ dfa_pos < Len(dfa_input)) =>
        <<current_state, dfa_input[dfa_pos + 1]>> \in DOMAIN dfa.tfn

\* the states held by the sequence w
Range(w) == {w[i] : i \in 1..Len(w)}

\* no state occurs twice in the sequence w
NoStateTwice(w) == \A i, j \in 1..Len(w) : i # j => w[i] # w[j]

\* C14: during an epsilon-closure computation no state is put on the worklist
\* more than once: the worklist at entry holds each state of the starting set
\* once; an iteration removes the front and pushes only states that were not in
\* the closure before it and are in it after it, the closure never shrinking;
\* and at every moment the worklist holds no state twice and only states of
\* the closure
C14_NoRequeue ==
    [][/\ pc' = "closure" =>
            NoStateTwice(worklist') /\ Range(worklist') \subseteq closure'
       /\ (pc # "closure" /\ pc' = "closure") =>
            Range(worklist') = from' /\ closure' = from'
       /\ (pc = "closure" /\ pc' = "closure") =>
            /\ closure \subseteq closure'
            /\ Len(worklist') >= Len(worklist) - 1
            /\ SubSeq(worklist', 1, Len(worklist) - 1) = Tail(worklist)
            /\ \A i \in Len(worklist)..Len(worklist') :
                 worklist'[i] \notin closure /\ worklist'[i] \in closure'
      ]_vars

\* the front of the worklist is a state that was pushed during the computation,
\* and it has an epsilon edge to a state that is already in the closure
C14_Witness ==
    /\ pc = "closure"
    /\ worklist # << >>
    /\ Head(worklist) \notin from
    /\ \E t \in closure : Edge(Head(worklist), EPSILON, t)

C16_EmptySetStaysEmpty ==
    [][(pc = "closure" /\ current_states = {}) =>
        /\ current_states' = {}
        /\ closure' = {}
        /\ worklist' = << >>
        /\ pos' \in {pos, pos + 1}
        /\ pc' \in {"closure", "done"}
        /\ sim_result' \in {"none", "Rejected"}
        /\ pc' = "done" => sim_result' = "Rejected" /\ pos' = Len(input)
      ]_vars

\* simulate has returned Rejected on an input of two symbols, no state of the
\* epsilon closure of the start state having an edge on the first symbol
C16_Witness ==
    /\ pc = "done"
    /\ sim_result = "Rejected"
    /\ Len(input) = 2
    /\ pos = 2
    /\ current_states = {}
    /\ \A q \in EpsilonReach({raw.start}, raw.states), t \in nfa.states :
         ~Edge(q, input[1], t)

\* the symbol c belongs to the alphabet of the DFA description
InDfaAlphabet(c) == c \in dfa_raw.alphabet

\* C17: in DFA simulate a symbol with no entry for the current state leaves
\* current_state unchanged and the loop goes on to the next symbol; and the
\* result on any input is the verdict of the run on that input with the symbols
\* outside the alphabet removed
C17_MissLeavesState ==
    /\ [][(/\ dfa_pc = "loop"
           /\ dfa_pos < Len(dfa_input)
           /\ <<current_state, dfa_input[dfa_pos + 1]>> \notin DOMAIN dfa.tfn) =>
             /\ current_state' = current_state
             /\ dfa_pos' = dfa_pos + 1
             /\ dfa_pc' = "loop"
             /\ dfa_sim_result' = "none"
         ]_vars
    /\ [](dfa_pc = "done" =>
            (dfa_sim_result = "Accepted"
               <=> DeltaHat(dfa_raw.start, SelectSeq(dfa_input, InDfaAlphabet))
                     \in dfa_raw.accept))

\* simulate has returned on an input whose first symbol moved the DFA off its
\* start state and whose second symbol is outside the alphabet
C17_Witness ==
    /\ dfa_pc = "done"
    /\ Len(dfa_input) = 2
    /\ dfa_input[1] \in dfa_raw.alphabet
    /\ dfa_input[2] \notin dfa_raw.alphabet
    /\ current_state # dfa_raw.start

\* the declared state set [0, stateCount) of the NFA description
DeclaredStates == 0..(raw.states - 1)

\* C18: on a constructed NFA, at every step of simulate the current state set,
\* the closure under computation with its worklist, and every epsilon closure
\* returned hold only states of the declared state set [0, stateCount)
C18_StatesInRange ==
    pc \in {"ready", "closure", "done"} =>
        /\ current_states \subseteq DeclaredStates
        /\ closure \subseteq DeclaredStates
        /\ \A i \in 1..Len(worklist) : worklist[i] \in DeclaredStates
        /\ epsilon_closure \subseteq DeclaredStates

\* simulate has consumed two symbols, the state with the largest identifier is
\* in current_states and the last epsilon closure is the whole state set
C18_Witness ==
    /\ pc = "done"
    /\ pos = 2
    /\ (raw.states - 1) \in current_states
    /\ epsilon_closure = DeclaredStates

\* C19: for a valid DFA description (its alphabet holds no EPSILON), NFA::new
\* succeeds on the same states, start, accept set and alphabet with every
\* target wrapped as a singleton; on every input over the alphabet NFA simulate
\* returns Accepted exactly when DFA simulate does; and after the same number
\* of symbols the NFA's current_states is the singleton of the DFA's
\* current_state
C19_NfaRefinesDfa ==
    /\ (dfa_new_result = "Ok" /\ EPSILON \notin dfa_raw.alphabet /\ new_result # "pending")
          => new_result = "Ok"
    /\ (/\ pc \in {"closure", "done"}
        /\ sim_result # "InvalidSymbol"
        /\ dfa_pc \in {"loop", "done"}
        /\ dfa_pos = pos)
          => current_states = {current_state}
    /\ (pc = "done" /\ dfa_pc = "done" /\ DfaInputDeclared)
          => /\ sim_result \in {"Accepted", "Rejected"}
             /\ sim_result = dfa_sim_result

\* both simulate calls have returned Accepted on an input of two symbols of
\* the alphabet that led the DFA away from its start state
C19_Witness ==
    /\ pc = "done"
    /\ dfa_pc = "done"
    /\ sim_result = "Accepted"
    /\ dfa_sim_result = "Accepted"
    /\ input = dfa_input
    /\ Len(input) = 2
    /\ DfaInputDeclared
    /\ current_state # dfa_raw.start
    /\ current_states = {current_state}
====
